---- MODULE Spec2Model ----
(***************************************************************************)
(* Verification model of whl-air: the signaling relay (session_manager.js, *)
(* server.js, auth.js), the peer connection manager (WebrtcManagerImpl),   *)
(* the signaling client (SignalingClientImpl) and the vehicle application. *)
(*                                                                         *)
(* The relay and the manager node are two processes; each has its own      *)
(* next-state relation (RelayNext, MgrNext) and specification.             *)
(***************************************************************************)
EXTENDS Integers, Naturals, Sequences, FiniteSets, TLC

(***************************************************************************)
(* Part I.  The signaling relay                                            *)
(***************************************************************************)

\* WebSocket connections accepted by the relay.
Links == {"l1", "l2", "l3"}

\* Client ids a token can carry.
Ids == {"A", "B"}

\* Names a message may carry in from / to / targetVehicleId: the ids, a name
\* nobody ever authenticates as, and the empty value (null / missing).
Names == Ids \cup {"ghost", ""}

\* Bearer tokens a link can present: none, one with a bad signature or
\* expired, a valid one without clientId, and valid ones carrying a clientId.
Tokens == {"none", "forged", "noclaim", "A", "B"}

\* Tokens that fail validation.
InvalidTokens == {"none", "forged", "noclaim"}

\* A parsed client frame: type, from, to and data.targetVehicleId.
Msg(type, from, to, target) ==
  [type |-> type, from |-> from, to |-> to, target |-> target]

\* The frames clients send: Join carries a target, Offer / Answer / Candidate
\* carry a recipient, "heartbeat" stands for any type the relay does not know.
Msgs ==
  {Msg("join", f, "", t) : f \in Ids, t \in Names}
    \cup {Msg("leave", f, "", "") : f \in Ids}
    \cup {Msg(ty, f, t, "") : ty \in {"offer", "answer", "candidate"},
                              f \in Ids, t \in Names}
    \cup {Msg("heartbeat", f, t, "") : f \in Ids, t \in {"", "A"}}

VARIABLES
  readyState,        \* per link: "none" | "pending" | "open" | "closing" | "closed"
  presented,         \* per link: the token of its connection request
  handlers,          \* per link: are ws.on('message') / ws.on('close') registered
  connectedClients,  \* per link: [has, id, targetId] (Map<WebSocket, ClientInfo>)
  sessions,          \* per id: the link registered under it, or "none"
  lastOp,            \* the handler that ran last: [kind, link, from]
  lastSent           \* the envelopes the last handler handed to ws.send

relayVars == <<readyState, presented, handlers, connectedClients, sessions,
               lastOp, lastSent>>

(***************************************************************************)
(* State of the manager node (Part II), declared here so that every action *)
(* of one process can leave the other process unchanged.                   *)
(***************************************************************************)
VARIABLES
  state_,                \* std::atomic<AppState>
  mutexOwner,            \* mutex_: "free", "stop", or the thread stuck on a relock
  startPc,               \* start(): "idle" | "lock" (CAS done, waiting for mutex_)
  stopPc,                \* stop(): "idle" | "lock" | "join"
  peerConnections_,      \* the index: a set of [peer, st, neg, dc] entries
  lastHeartbeatRxTime_,  \* peer -> intervals elapsed since its last heartbeat
  isRunning_,            \* SignalingClientImpl::isRunning_
  asioPc,                \* asioThread_: "none" | "loop" | "wait" | "postwait" | "exited"
  conn,                  \* the signaling WebSocket: "connecting" | "open" | "closed"
  wsStopped,             \* wsClient_.stop() has been called
  rtcEvt,                \* the state change the transport thread is delivering
  aborted,               \* the process was terminated by an uncaught exception
  mLastOp,               \* the operation or handler that ran last
  lastResult,            \* its return value
  lastCbs,               \* the application callbacks it invoked
  lastRemoved,           \* the index entries it removed: [peer, cause]
  lastCreated,           \* the peers it created a PeerConnection for
  lastSentData,          \* the peers it sent data-channel data to
  lastNegCalls,          \* the negotiation and Close requests it made to peer
                         \* connections, in order, each with the state the
                         \* connection was in when the handler started
  lastSignals,           \* the envelopes it handed to sendSignal and that
                         \* went out on the signaling connection
  disconnectedCalls      \* how often onDisconnectedHandler_ has completed
                         \* since asioThread_ was started (counted up to 2)

mgrVars == <<state_, mutexOwner, startPc, stopPc, peerConnections_,
             lastHeartbeatRxTime_, isRunning_, asioPc, conn, wsStopped, rtcEvt,
             aborted, mLastOp, lastResult, lastCbs, lastRemoved, lastCreated,
             lastSentData, lastNegCalls, lastSignals, disconnectedCalls>>

vars == <<relayVars, mgrVars>>

\* What a relay handler leaves behind: its record, the manager untouched.
Did(kind, l, from) ==
  /\ lastOp' = [kind |-> kind, link |-> l, from |-> from]
  /\ UNCHANGED mgrVars

NoInfo == [has |-> FALSE, id |-> "", targetId |-> ""]

\* An envelope handed to ws.send: its destination link, its fields, and the
\* link whose message or closure caused it ("server" for the relay's own).
Sent(dst, type, from, to, text, origin) ==
  [dst |-> dst, type |-> type, from |-> from, to |-> to, text |-> text,
   origin |-> origin]

RelayInit ==
  /\ readyState = [l \in Links |-> "none"]
  /\ presented = [l \in Links |-> "none"]
  /\ handlers = [l \in Links |-> FALSE]
  /\ connectedClients = [l \in Links |-> NoInfo]
  /\ sessions = [i \in Ids |-> "none"]
  /\ lastOp = [kind |-> "init", link |-> "none", from |-> ""]
  /\ lastSent = {}

\* auth.js verifyToken: the clientId of a valid token, "" (null) otherwise.
verifyTokenAcceptAll(token) == IF token \in Ids THEN token ELSE "A"

verifyToken(token) ==
  IF token = "none" THEN ""
  ELSE IF token = "forged" THEN ""
  ELSE IF token = "noclaim" THEN ""
  ELSE token

\* A sendMessage that hands nothing to the socket.
sendMessageDropped(dst, type, from, to, text, origin) == {}

\* session_manager.js sendMessage: ws.send only when the socket is OPEN.
sendMessage(dst, type, from, to, text, origin) ==
  IF dst \in Links /\ readyState[dst] = "open"
    THEN {Sent(dst, type, from, to, text, origin)}
    ELSE {}

\* session_manager.js addClient: the new connectedClients and sessions.
addClientClients(ws, clientId) ==
  IF connectedClients[ws].has
    THEN connectedClients
    ELSE [connectedClients EXCEPT
            ![ws] = [has |-> TRUE, id |-> clientId, targetId |-> ""]]

addClientSessions(ws, clientId) ==
  IF connectedClients[ws].has
    THEN sessions
    ELSE [sessions EXCEPT ![clientId] = ws]

\* A client opens a WebSocket: wss.on('connection') starts and awaits
\* auth.verifyToken.
Connect(l, t) ==
  /\ readyState[l] = "none"
  /\ readyState' = [readyState EXCEPT ![l] = "pending"]
  /\ presented' = [presented EXCEPT ![l] = t]
  /\ Did("connect", l, "")
  /\ lastSent' = {}
  /\ UNCHANGED <<handlers, connectedClients, sessions>>

\* wss.on('connection') after verifyToken resolved.
OnConnection(l) ==
  /\ readyState[l] = "pending"
  /\ LET clientId == verifyToken(presented[l]) IN
     IF clientId = ""
       THEN \* error envelope, ws.terminate(), return
            /\ readyState' = [readyState EXCEPT ![l] = "closed"]
            /\ Did("reject", l, "")
            /\ lastSent' = {Sent(l, "error", "", "", "Authentication failed",
                                 "server")}
            /\ UNCHANGED <<handlers, connectedClients, sessions>>
       ELSE /\ readyState' = [readyState EXCEPT ![l] = "open"]
            /\ connectedClients' = addClientClients(l, clientId)
            /\ sessions' = addClientSessions(l, clientId)
            /\ handlers' = [handlers EXCEPT ![l] = TRUE]
            /\ Did("accept", l, "")
            /\ lastSent' = {Sent(l, "connected", "", "", clientId, "server")}
  /\ UNCHANGED presented

\* A frame arrives on a socket that has no 'message' listener (its
\* authentication is pending): the event is emitted to nobody.
MessageNoListener(l) ==
  /\ readyState[l] = "pending"
  /\ ~handlers[l]
  /\ Did("unheard", l, "")
  /\ lastSent' = {}
  /\ UNCHANGED <<readyState, presented, handlers, connectedClients, sessions>>

\* session_manager.js routeMessage: the validation of the from field.
fromUnchecked(from, id) == TRUE

fromMatches(from, id) == from = id

\* routeMessage that forwards what it can and never replies to the sender.
routeSendsForwardOnly(senderWs, type, from, to, target) ==
  IF /\ type \in {"offer", "answer", "candidate"}
     /\ connectedClients[senderWs].has
     /\ to \in Ids
     /\ sessions[to] # "none"
    THEN sendMessage(sessions[to], type, from, to, "", senderWs)
    ELSE {}

\* session_manager.js routeMessage: the envelopes it sends.
routeSends(senderWs, type, from, to, target) ==
  LET senderInfo == connectedClients[senderWs] IN
  IF ~senderInfo.has THEN {}
  ELSE IF ~fromMatches(from, senderInfo.id) THEN {}
  ELSE IF type = "join" THEN
    IF target = "" THEN {}
    ELSE IF target \in Ids /\ sessions[target] # "none"
              /\ connectedClients[sessions[target]].has
      THEN sendMessage(sessions[target], "join_request", senderInfo.id, target,
                       "", senderWs)
      ELSE sendMessage(senderWs, "error", "server", senderInfo.id,
                       "Target vehicle " \o target \o " not found or offline.",
                       "server")
  ELSE IF type = "leave" THEN
    LET targetId == senderInfo.targetId IN
    IF targetId # "" /\ targetId \in Ids /\ sessions[targetId] # "none"
         /\ connectedClients[sessions[targetId]].has
      THEN sendMessage(sessions[targetId], "leave", senderInfo.id, targetId,
                       "Peer left session", senderWs)
      ELSE {}
  ELSE IF type \in {"offer", "answer", "candidate"} THEN
    IF to = "" THEN {}
    ELSE IF to \in Ids /\ sessions[to] # "none"
              /\ connectedClients[sessions[to]].has
      THEN sendMessage(sessions[to], type, from, to, "", senderWs)
      ELSE sendMessage(senderWs, "error", "server", senderInfo.id,
                       "Recipient " \o to \o " not found or offline.", "server")
  ELSE sendMessage(senderWs, "error", "server", senderInfo.id,
                   "Unknown message type '" \o type \o "'.", "server")

\* routeMessage without the bookkeeping of the sender's target.
routeTargetKept(senderWs, type, from, to, target) ==
  connectedClients[senderWs].targetId

\* session_manager.js routeMessage: the sender's targetId afterwards.
routeTarget(senderWs, type, from, to, target) ==
  LET senderInfo == connectedClients[senderWs] IN
  IF ~senderInfo.has THEN senderInfo.targetId
  ELSE IF ~fromMatches(from, senderInfo.id) THEN senderInfo.targetId
  ELSE IF type = "join" THEN
    IF target = "" THEN senderInfo.targetId
    ELSE IF target \in Ids /\ sessions[target] # "none"
              /\ connectedClients[sessions[target]].has
      THEN target
      ELSE ""
  ELSE IF type = "leave" THEN ""
  ELSE senderInfo.targetId

\* ws.on('message'): a parsed frame is routed.
OnMessage(l, type, from, to, target) ==
  /\ readyState[l] = "open"
  /\ handlers[l]
  /\ lastSent' = routeSends(l, type, from, to, target)
  /\ connectedClients' =
       [connectedClients EXCEPT
          ![l].targetId = routeTarget(l, type, from, to, target)]
  /\ Did("message", l, from)
  /\ UNCHANGED <<readyState, presented, handlers, sessions>>

\* The socket of an authenticated client starts closing (close frame, error
\* or network loss): readyState leaves OPEN before 'close' is emitted.
BeginClose(l) ==
  /\ readyState[l] = "open"
  /\ readyState' = [readyState EXCEPT ![l] = "closing"]
  /\ Did("closing", l, "")
  /\ lastSent' = {}
  /\ UNCHANGED <<presented, handlers, connectedClients, sessions>>

\* session_manager.js removeClient: is ws a value of the sessions map.
inSessions(ws) == \E i \in Ids : sessions[i] = ws

\* session_manager.js removeClient: the Leave envelopes it sends.
removeSends(ws) ==
  LET clientInfo == connectedClients[ws] IN
  IF ~clientInfo.has \/ ~inSessions(ws) THEN {}
  ELSE UNION {sendMessage(o, "leave", clientInfo.id, connectedClients[o].id,
                          "Peer disconnected", ws)
               : o \in {x \in Links \ {ws} :
                          /\ connectedClients[x].has
                          /\ connectedClients[x].targetId = clientInfo.id}}

\* session_manager.js removeClient: the sessions map afterwards (the first
\* entry whose value is ws is deleted; a link is the value of at most one).
removeSessions(ws) ==
  IF ~connectedClients[ws].has THEN sessions
  ELSE [i \in Ids |-> IF sessions[i] = ws THEN "none" ELSE sessions[i]]

\* ws.on('close'): removeClient(ws).
OnClose(l) ==
  /\ readyState[l] = "closing"
  /\ handlers[l]
  /\ readyState' = [readyState EXCEPT ![l] = "closed"]
  /\ lastSent' = removeSends(l)
  /\ sessions' = removeSessions(l)
  /\ connectedClients' = [connectedClients EXCEPT ![l] = NoInfo]
  /\ handlers' = [handlers EXCEPT ![l] = FALSE]
  /\ Did("close", l, "")
  /\ UNCHANGED presented

RelayNext ==
  \/ \E l \in Links, t \in Tokens : Connect(l, t)
  \/ \E l \in Links : OnConnection(l)
  \/ \E l \in Links : MessageNoListener(l)
  \/ \E l \in Links, m \in Msgs :
        OnMessage(l, m.type, m.from, m.to, m.target)
  \/ \E l \in Links : BeginClose(l)
  \/ \E l \in Links : OnClose(l)

(***************************************************************************)
(* Part II.  The manager node: WebrtcManagerImpl, SignalingClientImpl and   *)
(* the vehicle application's hooks                                         *)
(***************************************************************************)

\* Remote peers, in the iteration order of the std::map containers.
PeerOrder == <<"p1", "p2">>

Peers == {PeerOrder[i] : i \in DOMAIN PeerOrder}

\* WebrtcConfig::heartbeat_interval_ms; the clock advances by one interval.
HeartbeatIntervalMs == 5000

\* Elapsed intervals are counted up to this many (every larger one is equal
\* to it for the timeout comparison).
MaxAge == 4

\* What relocking mutex_ on the thread that owns it can do: block forever,
\* go through, or raise std::system_error, which nothing catches.
Outcomes == {"proceed", "deadlock", "throw"}

NoEvt == [peer |-> "", st |-> "", late |-> FALSE]

Cb(kind, peer, reason) == [kind |-> kind, peer |-> peer, reason |-> reason]

MgrInit ==
  /\ state_ = "Uninitialized"
  /\ mutexOwner = "free"
  /\ startPc = "idle"
  /\ stopPc = "idle"
  /\ peerConnections_ = {}
  /\ lastHeartbeatRxTime_ = << >>
  /\ isRunning_ = FALSE
  /\ asioPc = "none"
  /\ conn = "closed"
  /\ wsStopped = FALSE
  /\ rtcEvt = NoEvt
  /\ aborted = FALSE
  /\ mLastOp = "new"
  /\ lastResult = TRUE
  /\ lastCbs = {}
  /\ lastRemoved = {}
  /\ lastCreated = {}
  /\ lastSentData = {}
  /\ lastNegCalls = << >>
  /\ lastSignals = {}
  /\ disconnectedCalls = 0

Init == RelayInit /\ MgrInit

\* std::map: count(peer_id) / find(peer_id) on the index.
hasPeer(pcs, p) == \E e \in pcs : e.peer = p

\* The negotiation state of the entry of p: "none", "offer" (CreateOffer was
\* called: a local Offer is outstanding), "answer" (a remote Offer was applied
\* and CreateAnswer called) or "done" (a remote Answer was applied).
negOf(pcs, p) ==
  IF hasPeer(pcs, p) THEN (CHOOSE e \in pcs : e.peer = p).neg ELSE "none"

\* The labels of the data channels of the PeerConnection of p that are open
\* (none once the connection is closed).
dcOf(pcs, p) ==
  IF hasPeer(pcs, p) THEN (CHOOSE e \in pcs : e.peer = p).dc ELSE {}

\* std::map: operator[] assignment and erase.  A connection state is
\* assigned to the PeerConnection of p (a new one when there is none).
mapAssign(pcs, p, st) ==
  {e \in pcs : e.peer # p}
    \cup {[peer |-> p, st |-> st, neg |-> negOf(pcs, p),
           dc |-> IF st = "Closed" THEN {} ELSE dcOf(pcs, p)]}

mapErase(pcs, p) == {e \in pcs : e.peer # p}

\* PeerConnection::GetConnectionState of the entry of p.
stateOf(pcs, p) == (CHOOSE e \in pcs : e.peer = p).st

\* PeerConnection::Close on the entry of p.
closePc(pcs, p) == IF hasPeer(pcs, p) THEN mapAssign(pcs, p, "Closed") ELSE pcs

\* getOrCreatePeerConnection: the index afterwards.
createAlways(pcs, p) ==
  pcs \cup {[peer |-> p, st |-> "New", neg |-> "none", dc |-> {}]}

getOrCreatePeerConnection(pcs, p) ==
  IF hasPeer(pcs, p) THEN pcs ELSE mapAssign(pcs, p, "New")

\* The negotiation state of the PeerConnection of p becomes n.
negAssign(pcs, p, n) ==
  IF hasPeer(pcs, p)
    THEN {e \in pcs : e.peer # p}
           \cup {[peer |-> p, st |-> stateOf(pcs, p), neg |-> n,
                   dc |-> dcOf(pcs, p)]}
    ELSE pcs

\* A request made to the PeerConnection of p, with the state that connection
\* was in ("absent": the handler created it) and what the request returned.
PcCall(pcs, p, call, ok) ==
  [peer |-> p, call |-> call,
   st |-> IF hasPeer(pcs, p) THEN stateOf(pcs, p) ELSE "absent",
   neg |-> negOf(pcs, p), ok |-> ok]

\* std::map erase on lastHeartbeatRxTime_.
hbErase(hb, p) == [q \in (DOMAIN hb) \ {p} |-> hb[q]]

\* What an operation or handler leaves behind, the relay untouched.
GhostNeg(op, result, created, removed, sent, calls, signals) ==
  /\ mLastOp' = op
  /\ lastResult' = result
  /\ lastCreated' = created
  /\ lastRemoved' = removed
  /\ lastSentData' = sent
  /\ lastNegCalls' = calls
  /\ lastSignals' = signals
  /\ disconnectedCalls' =
       IF op = "startConnect" /\ ~isRunning_ THEN 0
       ELSE IF \E c \in lastCbs' : c.kind = "SignalingDisconnected"
         THEN IF disconnectedCalls < 2 THEN disconnectedCalls + 1 ELSE 2
       ELSE disconnectedCalls
  /\ UNCHANGED relayVars

\* The same for one that negotiates nothing and sends no envelope.
Ghost(op, result, created, removed, sent) ==
  GhostNeg(op, result, created, removed, sent, << >>, {})

\* A handler that holds mutex_ calls the invoke helpers for cbs; each helper
\* locks mutex_ again on the same thread.
Relock(thread, cbs, outcome) ==
  /\ outcome \in Outcomes
  /\ (cbs = {}) => outcome = "proceed"
  /\ lastCbs' = IF outcome = "proceed" THEN cbs ELSE {}
  /\ mutexOwner' = IF outcome = "deadlock" THEN thread ELSE "free"
  /\ aborted' = (outcome = "throw")

\* The handlers that keep std::lock_guard<std::mutex> lock(mutex_) for their
\* whole body and call the invoke helpers inside it, by the name they leave
\* in mLastOp: handleSignalingConnected / Disconnected / Error / Message,
\* handlePeerConnectionStateChange, handlePeerDataChannelMessage and
\* handlePeerError, handlePeerLocalSdpGenerated and
\* handlePeerLocalCandidateGenerated, onHeartbeatTimer.
LockedHandlers ==
  {"signaling", "message", "stateChange", "notify", "localCandidate", "tick",
   "localSdp:offer", "localSdp:answer", "localSdp:pranswer"}

\* The threads that run those handlers.
HandlerThreads == {"sig", "rtc", "timer"}

\* The process runs and mutex_ can be taken.
CanLock == ~aborted /\ mutexOwner = "free"

\* init(): creates the signaling client and registers its handlers.
ManagerInit ==
  /\ CanLock
  /\ state_ = "Uninitialized"
  /\ state_' = "Initialized"
  /\ lastCbs' = {}
  /\ Ghost("init", TRUE, {}, {}, {})
  /\ UNCHANGED <<mutexOwner, startPc, stopPc, peerConnections_,
                 lastHeartbeatRxTime_, isRunning_, asioPc, conn, wsStopped,
                 rtcEvt, aborted>>

\* start(): the compare-exchange Initialized -> Running succeeds.
StartCAS ==
  /\ ~aborted
  /\ startPc = "idle"
  /\ state_ = "Initialized"
  /\ state_' = "Running"
  /\ startPc' = "lock"
  /\ lastCbs' = {}
  /\ Ghost("startCAS", TRUE, {}, {}, {})
  /\ UNCHANGED <<mutexOwner, stopPc, peerConnections_, lastHeartbeatRxTime_,
                 isRunning_, asioPc, conn, wsStopped, rtcEvt, aborted>>

\* start(): the compare-exchange fails and start returns false.
StartRejected ==
  /\ ~aborted
  /\ startPc = "idle"
  /\ state_ # "Initialized"
  /\ lastCbs' = {}
  /\ Ghost("start", FALSE, {}, {}, {})
  /\ UNCHANGED <<state_, mutexOwner, startPc, stopPc, peerConnections_,
                 lastHeartbeatRxTime_, isRunning_, asioPc, conn, wsStopped,
                 rtcEvt, aborted>>

\* start() after its compare-exchange: lock mutex_, signalingClient_->connect()
\* (which starts asioThread_), return true.
StartConnect ==
  /\ CanLock
  /\ startPc = "lock"
  /\ startPc' = "idle"
  /\ IF isRunning_
       THEN UNCHANGED <<isRunning_, asioPc, conn>>
       ELSE /\ isRunning_' = TRUE
            /\ asioPc' = "loop"
            /\ conn' = "connecting"
  /\ lastCbs' = {}
  /\ Ghost("startConnect", TRUE, {}, {}, {})
  /\ UNCHANGED <<state_, mutexOwner, stopPc, peerConnections_,
                 lastHeartbeatRxTime_, wsStopped, rtcEvt, aborted>>

\* stop(): one of its two compare-exchanges to Stopping succeeds.
StopCAS ==
  /\ ~aborted
  /\ stopPc = "idle"
  /\ state_ \in {"Running", "Initialized"}
  /\ state_' = "Stopping"
  /\ stopPc' = "lock"
  /\ lastCbs' = {}
  /\ Ghost("stopCAS", TRUE, {}, {}, {})
  /\ UNCHANGED <<mutexOwner, startPc, peerConnections_, lastHeartbeatRxTime_,
                 isRunning_, asioPc, conn, wsStopped, rtcEvt, aborted>>

\* stop(): both compare-exchanges fail and stop returns at once.
StopSkipped ==
  /\ ~aborted
  /\ stopPc = "idle"
  /\ state_ \notin {"Running", "Initialized"}
  /\ lastCbs' = {}
  /\ Ghost("stopSkipped", TRUE, {}, {}, {})
  /\ UNCHANGED <<state_, mutexOwner, startPc, stopPc, peerConnections_,
                 lastHeartbeatRxTime_, isRunning_, asioPc, conn, wsStopped,
                 rtcEvt, aborted>>

\* stop() under mutex_: Close() every peer connection, clear the index, then
\* signalingClient_->disconnect(), which returns at once when isRunning_ is
\* false and otherwise stops the io_context and joins asioThread_.
StopClose ==
  /\ CanLock
  /\ stopPc = "lock"
  /\ peerConnections_' = {}
  /\ lastCbs' = {}
  /\ Ghost("stopClose", TRUE, {},
           {[peer |-> e.peer, cause |-> "stop"] : e \in peerConnections_}, {})
  /\ IF isRunning_
       THEN /\ isRunning_' = FALSE
            /\ wsStopped' = TRUE
            /\ conn' = "closed"
            /\ mutexOwner' = "stop"
            /\ stopPc' = "join"
            /\ UNCHANGED state_
       ELSE /\ state_' = "Stopped"
            /\ stopPc' = "idle"
            /\ UNCHANGED <<isRunning_, wsStopped, conn, mutexOwner>>
  /\ UNCHANGED <<startPc, lastHeartbeatRxTime_, asioPc, rtcEvt, aborted>>

\* stop(): asioThread_.join() returns, state_ = Stopped, mutex_ released.
StopJoin ==
  /\ ~aborted
  /\ stopPc = "join"
  /\ asioPc = "exited"
  /\ state_' = "Stopped"
  /\ mutexOwner' = "free"
  /\ stopPc' = "idle"
  /\ lastCbs' = {}
  /\ Ghost("stop", TRUE, {}, {}, {})
  /\ UNCHANGED <<startPc, peerConnections_, lastHeartbeatRxTime_, isRunning_,
                 asioPc, conn, wsStopped, rtcEvt, aborted>>

\* connectToPeer(p): false unless Running, true when the entry exists, else a
\* new PeerConnection is stored and CreateOffer() called.
connectToPeerIndex(pcs, p) ==
  IF hasPeer(pcs, p)
    THEN pcs
    ELSE negAssign(mapAssign(pcs, p, "New"), p, "offer")

\* connectToPeer(p): the requests it makes to the PeerConnection of p.
offerAlways(pcs, p) == <<PcCall(pcs, p, "CreateOffer", TRUE)>>

connectToPeerCalls(pcs, p) ==
  IF hasPeer(pcs, p) THEN << >> ELSE <<PcCall(pcs, p, "CreateOffer", TRUE)>>

ConnectToPeer(p) ==
  /\ CanLock
  /\ lastCbs' = {}
  /\ IF state_ # "Running"
       THEN /\ Ghost("connectToPeer", FALSE, {}, {}, {})
            /\ UNCHANGED peerConnections_
       ELSE /\ peerConnections_' = connectToPeerIndex(peerConnections_, p)
            /\ GhostNeg("connectToPeer", TRUE,
                        IF hasPeer(peerConnections_, p) THEN {} ELSE {p},
                        {}, {}, connectToPeerCalls(peerConnections_, p), {})
  /\ UNCHANGED <<state_, mutexOwner, startPc, stopPc, lastHeartbeatRxTime_,
                 isRunning_, asioPc, conn, wsStopped, rtcEvt, aborted>>

\* disconnectFromPeer(p): Close() on the entry when there is one.
DisconnectFromPeer(p) ==
  /\ CanLock
  /\ lastCbs' = {}
  /\ peerConnections_' = closePc(peerConnections_, p)
  /\ GhostNeg("disconnectFromPeer", hasPeer(peerConnections_, p), {}, {}, {},
              IF hasPeer(peerConnections_, p)
                THEN <<PcCall(peerConnections_, p, "Close", TRUE)>>
                ELSE << >>,
              {})
  /\ UNCHANGED <<state_, mutexOwner, startPc, stopPc, lastHeartbeatRxTime_,
                 isRunning_, asioPc, conn, wsStopped, rtcEvt, aborted>>

\* The labels of the data channels a connection carries (WebrtcConfig).
ChannelLabels == {"control", "telemetry"}

\* LibwebrtcPeerConnectionImpl::SendData(label, data): false when the
\* underlying connection is missing, and false after that as well (the
\* lookup of the open channel and the send are commented out).
SendData(pcs, p, label) == FALSE

\* sendDataChannelMessage(p, label, data): false unless Running and the entry
\* exists; otherwise what PeerConnection::SendData returns.
SendDataChannelMessage(p, label) ==
  /\ CanLock
  /\ lastCbs' = {}
  /\ LET sent == /\ state_ = "Running"
                 /\ hasPeer(peerConnections_, p)
                 /\ SendData(peerConnections_, p, label) IN
     Ghost("send", sent, {}, {}, IF sent THEN {p} ELSE {})
  /\ UNCHANGED <<state_, mutexOwner, startPc, stopPc, peerConnections_,
                 lastHeartbeatRxTime_, isRunning_, asioPc, conn, wsStopped,
                 rtcEvt, aborted>>

\* sendDataChannelMessageToAllPeers(label, data): false unless Running; else
\* SendData on every entry, true when one of them took the message.
broadcastSent(pcs, label) ==
  {e.peer : e \in {x \in pcs : SendData(pcs, x.peer, label)}}

SendDataChannelMessageToAllPeers(label) ==
  /\ CanLock
  /\ lastCbs' = {}
  /\ LET sent == IF state_ = "Running"
                   THEN broadcastSent(peerConnections_, label)
                   ELSE {} IN
     Ghost("broadcast", sent # {}, {}, {}, sent)
  /\ UNCHANGED <<state_, mutexOwner, startPc, stopPc, peerConnections_,
                 lastHeartbeatRxTime_, isRunning_, asioPc, conn, wsStopped,
                 rtcEvt, aborted>>

(***************************************************************************)
(* The signaling client's thread and the manager's signaling handlers      *)
(***************************************************************************)

SignalTypes == {"JOIN", "LEAVE", "OFFER", "ANSWER", "CANDIDATE", "HEARTBEAT",
                "UNKNOWN"}

Negotiation == {"OFFER", "ANSWER", "CANDIDATE"}

\* An event of the signaling connection.  For a message: its type, its
\* sender, whether it carries the fields its type needs (complete), and what
\* the PeerConnection returns when its description or candidate is applied.
Evt(kind, type, from, complete, ok) ==
  [kind |-> kind, type |-> type, from |-> from, complete |-> complete,
   ok |-> ok]

\* What websocketpp can dispatch next: the handshake's end while connecting;
\* a message, an undecodable payload or the close while open.
SigEvents ==
  IF conn = "connecting"
    THEN {Evt("open", "", "", TRUE, TRUE), Evt("fail", "", "", TRUE, TRUE)}
  ELSE IF conn = "open"
    THEN {Evt("close", "", "", TRUE, TRUE), Evt("garbage", "", "", TRUE, TRUE)}
           \cup {Evt("message", t, f, c, TRUE) :
                   t \in SignalTypes, f \in Peers, c \in BOOLEAN}
           \cup {Evt("message", t, f, TRUE, FALSE) :
                   t \in Negotiation, f \in Peers}
  ELSE {}

\* handleSignalingMessage: the index afterwards.
messageIndex(pcs, type, from) ==
  IF type = "LEAVE" THEN closePc(pcs, from)
  ELSE IF type \in Negotiation THEN getOrCreatePeerConnection(pcs, from)
  ELSE pcs

\* handleSignalingMessage: the negotiation state of the sender's
\* PeerConnection once the description was applied (ok: the PeerConnection
\* accepted it; the handler does not look at what it returns).
messageNeg(pcs, type, from, complete, ok) ==
  IF type = "OFFER" /\ complete /\ ok THEN negAssign(pcs, from, "answer")
  ELSE IF type = "ANSWER" /\ complete /\ ok THEN negAssign(pcs, from, "done")
  ELSE pcs

\* handleSignalingMessage: the requests it makes to the sender's
\* PeerConnection, in order.
messageCalls(pcs, type, from, complete, ok) ==
  IF type = "LEAVE" /\ hasPeer(pcs, from)
    THEN <<PcCall(pcs, from, "Close", TRUE)>>
  ELSE IF type = "OFFER" /\ complete
    THEN <<PcCall(pcs, from, "SetRemoteDescription:offer", ok),
           PcCall(pcs, from, "CreateAnswer", TRUE)>>
  ELSE IF type = "ANSWER" /\ complete
    THEN <<PcCall(pcs, from, "SetRemoteDescription:answer", ok)>>
  ELSE IF type = "CANDIDATE" /\ complete
    THEN <<PcCall(pcs, from, "AddRemoteCandidate", ok)>>
  ELSE << >>

\* handleReceivedHeartbeat: lastHeartbeatRxTime_[peer_id] = now.
handleReceivedHeartbeat(hb, p) ==
  IF HeartbeatIntervalMs > 0
    THEN [q \in (DOMAIN hb) \cup {p} |-> IF q = p THEN 0 ELSE hb[q]]
    ELSE hb

\* handleSignalingMessage: the callbacks it goes on to invoke.
messageCbs(type, from, complete) ==
  IF type \in Negotiation /\ ~complete
    THEN {Cb("PeerError", from, "Received message with missing fields or PC")}
  ELSE IF type = "UNKNOWN"
    THEN {Cb("SignalingError", "", "Received unknown signal message type")}
  ELSE {}

\* The callbacks of the handler an event is dispatched to.
eventCbs(e) ==
  IF e.kind = "open" THEN {Cb("SignalingConnected", "", "")}
  ELSE IF e.kind = "close"
    THEN {Cb("SignalingDisconnected", "", "Signaling connection lost")}
  ELSE IF e.kind = "fail"
    THEN {Cb("SignalingError", "", "Connection handshake failed")}
  ELSE IF e.kind = "garbage"
    THEN {Cb("SignalingError", "", "Failed to parse received message.")}
  ELSE messageCbs(e.type, e.from, e.complete)

\* asioThread_: wsClient_.run() dispatches an event; its handler starts by
\* locking mutex_.
AsioDispatch ==
  /\ ~aborted
  /\ asioPc = "loop"
  /\ ~wsStopped
  /\ conn # "closed"
  /\ asioPc' = "wait"
  /\ lastCbs' = {}
  /\ Ghost("dispatch", TRUE, {}, {}, {})
  /\ UNCHANGED <<state_, mutexOwner, startPc, stopPc, peerConnections_,
                 lastHeartbeatRxTime_, isRunning_, conn, wsStopped, rtcEvt,
                 aborted>>

\* onOpen / onFail / onClose / onMessage and the manager handler they call:
\* handleSignalingConnected, handleSignalingError, handleSignalingDisconnected
\* or handleSignalingMessage, under mutex_.
SigHandle(e, outcome) ==
  /\ CanLock
  /\ asioPc = "wait"
  /\ e \in SigEvents
  /\ conn' = IF e.kind = "open" THEN "open"
             ELSE IF e.kind \in {"fail", "close"} THEN "closed"
             ELSE conn
  /\ peerConnections_' =
       IF e.kind = "message"
         THEN messageNeg(messageIndex(peerConnections_, e.type, e.from),
                         e.type, e.from, e.complete, e.ok)
         ELSE peerConnections_
  /\ lastHeartbeatRxTime_' =
       IF e.kind = "message" /\ e.type = "HEARTBEAT"
         THEN handleReceivedHeartbeat(lastHeartbeatRxTime_, e.from)
         ELSE lastHeartbeatRxTime_
  /\ Relock("sig", eventCbs(e), outcome)
  /\ asioPc' = IF outcome = "proceed" THEN "loop" ELSE asioPc
  /\ GhostNeg(IF e.kind = "message" THEN "message" ELSE "signaling", TRUE,
              IF e.kind = "message" /\ e.type \in Negotiation
                   /\ ~hasPeer(peerConnections_, e.from)
                THEN {e.from} ELSE {},
              {}, {},
              IF e.kind = "message"
                THEN messageCalls(peerConnections_, e.type, e.from,
                                  e.complete, e.ok)
                ELSE << >>,
              {})
  /\ UNCHANGED <<state_, startPc, stopPc, isRunning_, wsStopped, rtcEvt>>

\* asioThread_: wsClient_.run() returns (io_context stopped, or out of work
\* once the connection is gone); the thread reads isRunning_.
AsioRunExit ==
  /\ ~aborted
  /\ asioPc = "loop"
  /\ wsStopped \/ conn = "closed"
  /\ asioPc' = IF isRunning_ THEN "postwait" ELSE "exited"
  /\ lastCbs' = {}
  /\ Ghost("runExit", TRUE, {}, {}, {})
  /\ UNCHANGED <<state_, mutexOwner, startPc, stopPc, peerConnections_,
                 lastHeartbeatRxTime_, isRunning_, conn, wsStopped, rtcEvt,
                 aborted>>

\* asioThread_ after run(): onDisconnectedHandler_() -> 
\* handleSignalingDisconnected under mutex_, then isRunning_ = false.
AsioPostDisconnected(outcome) ==
  /\ CanLock
  /\ asioPc = "postwait"
  /\ Relock("sig", {Cb("SignalingDisconnected", "",
                       "Signaling connection lost")}, outcome)
  /\ asioPc' = IF outcome = "proceed" THEN "exited" ELSE asioPc
  /\ isRunning_' = IF outcome = "proceed" THEN FALSE ELSE isRunning_
  /\ Ghost("signaling", TRUE, {}, {}, {})
  /\ UNCHANGED <<state_, startPc, stopPc, peerConnections_,
                 lastHeartbeatRxTime_, conn, wsStopped, rtcEvt>>

(***************************************************************************)
(* The transport's thread and the manager's peer connection handlers       *)
(***************************************************************************)

\* The connection states a PeerConnection can move to on its own; a closed
\* one only reports that it closed.
TransportNextStates(st) ==
  IF st = "New" THEN {"Connecting"}
  ELSE IF st = "Connecting" THEN {"Connected", "Failed"}
  ELSE IF st = "Connected" THEN {"Disconnected"}
  ELSE IF st = "Disconnected" THEN {"Connected", "Failed"}
  ELSE IF st = "Closed" THEN {"Closed"}
  ELSE {}

\* The transport changes the connection state of p's PeerConnection and
\* calls onConnectionStateChange, whose handler starts by locking mutex_.
TransportChange(p, s) ==
  /\ ~aborted
  /\ mutexOwner # "rtc"
  /\ rtcEvt = NoEvt
  /\ hasPeer(peerConnections_, p)
  /\ s \in TransportNextStates(stateOf(peerConnections_, p))
  /\ peerConnections_' = mapAssign(peerConnections_, p, s)
  /\ rtcEvt' = [peer |-> p, st |-> s, late |-> FALSE]
  /\ lastCbs' = {}
  /\ Ghost("transport", TRUE, {}, {}, {})
  /\ UNCHANGED <<state_, mutexOwner, startPc, stopPc, lastHeartbeatRxTime_,
                 isRunning_, asioPc, conn, wsStopped, aborted>>

\* handlePeerConnectionStateChange: the reason it destroys the entry with.
stateReason(s) ==
  IF s = "Disconnected" THEN "PC State: Disconnected"
  ELSE IF s = "Failed" THEN "PC State: Failed"
  ELSE "PC State: Closed"

\* destroyPeerConnection: Close(), erase the heartbeat entry and the index
\* entry; invokePeerDisconnectedCallback follows.
destroyIndex(pcs, p) == mapErase(closePc(pcs, p), p)

\* PeerConnection::Close() "triggers onConnectionStateChange callback to a
\* closed state (asynchronous)": when destroyPeerConnection closes and erases
\* a connection that had not reported Closed, the erased transport's Closed
\* report is what the transport thread delivers next.  Its callback carries
\* the peer id only.
closeEvent(pcs, evt) ==
  IF /\ hasPeer(pcs, evt.peer)
     /\ evt.st \in {"Disconnected", "Failed"}
    THEN [peer |-> evt.peer, st |-> "Closed", late |-> TRUE]
    ELSE NoEvt

\* handlePeerConnectionStateChange(peer, state) under mutex_.
RtcHandle(outcome) ==
  /\ CanLock
  /\ rtcEvt # NoEvt
  /\ LET p == rtcEvt.peer
         s == rtcEvt.st
         known == hasPeer(peerConnections_, p)
         ends == known /\ s \in {"Disconnected", "Failed", "Closed"} IN
     /\ peerConnections_' =
          IF ends THEN destroyIndex(peerConnections_, p) ELSE peerConnections_
     /\ lastHeartbeatRxTime_' =
          IF ends THEN hbErase(lastHeartbeatRxTime_, p)
                  ELSE lastHeartbeatRxTime_
     /\ Relock("rtc",
               IF ends THEN {Cb("PeerDisconnected", p, stateReason(s))}
               ELSE IF known /\ s = "Connected"
                 THEN {Cb("PeerConnected", p, "")}
               ELSE {},
               outcome)
     /\ Ghost("stateChange", TRUE, {},
              IF ends THEN {[peer |-> p, cause |-> stateReason(s)]} ELSE {},
              {})
  /\ rtcEvt' = IF outcome # "proceed" THEN rtcEvt
                ELSE closeEvent(peerConnections_, rtcEvt)
  /\ UNCHANGED <<state_, startPc, stopPc, isRunning_, asioPc, conn, wsStopped>>

\* handlePeerDataChannelMessage(peer, label, message) under mutex_, and
\* handlePeerError(peer, msg) (label "error").
RtcNotify(p, label, outcome) ==
  /\ CanLock
  /\ rtcEvt = NoEvt
  /\ Relock("rtc",
            IF ~hasPeer(peerConnections_, p) THEN {}
            ELSE IF label = "error" THEN {Cb("PeerError", p, "transport error")}
            ELSE IF label \in {"control", "telemetry"}
              THEN {Cb("DataChannelMessage", p, label)}
            ELSE {},
            outcome)
  /\ Ghost("notify", TRUE, {}, {}, {})
  /\ UNCHANGED <<state_, startPc, stopPc, peerConnections_,
                 lastHeartbeatRxTime_, isRunning_, asioPc, conn, wsStopped,
                 rtcEvt>>

\* The index with the channel `label` of p's PeerConnection open or not.
dcAssign(pcs, p, label, open) ==
  {e \in pcs : e.peer # p}
    \cup {[peer |-> p, st |-> stateOf(pcs, p), neg |-> negOf(pcs, p),
           dc |-> IF open THEN dcOf(pcs, p) \cup {label}
                          ELSE dcOf(pcs, p) \ {label}]}

\* A data channel of p's PeerConnection opens while the connection is being
\* established or is established; handlePeerDataChannelOpened(peer, label)
\* locks mutex_, looks the peer up and logs: the manager keeps no record of
\* the channel.
DataChannelOpened(p, label) ==
  /\ CanLock
  /\ hasPeer(peerConnections_, p)
  /\ stateOf(peerConnections_, p) \in {"Connecting", "Connected"}
  /\ label \notin dcOf(peerConnections_, p)
  /\ peerConnections_' = dcAssign(peerConnections_, p, label, TRUE)
  /\ lastCbs' = {}
  /\ Ghost("dataChannelOpened", TRUE, {}, {}, {})
  /\ UNCHANGED <<state_, mutexOwner, startPc, stopPc, lastHeartbeatRxTime_,
                 isRunning_, asioPc, conn, wsStopped, rtcEvt, aborted>>

\* An open data channel of p's PeerConnection closes;
\* handlePeerDataChannelClosed(peer, label) logs and changes nothing.
DataChannelClosed(p, label) ==
  /\ CanLock
  /\ hasPeer(peerConnections_, p)
  /\ label \in dcOf(peerConnections_, p)
  /\ peerConnections_' = dcAssign(peerConnections_, p, label, FALSE)
  /\ lastCbs' = {}
  /\ Ghost("dataChannelClosed", TRUE, {}, {}, {})
  /\ UNCHANGED <<state_, mutexOwner, startPc, stopPc, lastHeartbeatRxTime_,
                 isRunning_, asioPc, conn, wsStopped, rtcEvt, aborted>>

\* WebrtcConfig::client_id: the id this node is configured with, the one its
\* token carries at the relay and the one its partner names as its target.
client_id == "vehicle_client_dummy_id"

\* The id the manager writes into the from field of what it sends.
LocalId == "client_dummy_id"

\* An envelope handed to the signaling client.
Signal(type, from, to) == [type |-> type, from |-> from, to |-> to]

\* SignalingClientImpl::sendSignal: the envelope goes out only when the
\* connection is open; otherwise onErrorHandler_ is called.
sendSignal(c, msg) == IF c = "open" THEN {msg} ELSE {}

\* handlePeerLocalSdpGenerated: the envelope type of a local description.
sdpAlwaysOffer(sdpType) == "OFFER"

sdpMessageType(sdpType) == IF sdpType = "offer" THEN "OFFER" ELSE "ANSWER"

\* The local descriptions a PeerConnection can report: an offer once
\* CreateOffer was called, a (provisional) answer once CreateAnswer was.
LocalSdpTypes(neg) ==
  IF neg = "offer" THEN {"offer"}
  ELSE IF neg = "answer" THEN {"answer", "pranswer"}
  ELSE {}

\* What sendSignal reports through onErrorHandler_, which is
\* handleSignalingError: it locks mutex_, which the calling handler holds.
sendErrorCbs(c) ==
  IF c = "open" THEN {}
  ELSE {Cb("SignalingError", "", "Cannot send signal, connection not open")}

\* handlePeerLocalSdpGenerated(peer, sdp_type, sdp) under mutex_; a
\* PeerConnection that was erased from the index may still deliver one.
LocalSdpGenerated(p, sdpType, outcome) ==
  /\ CanLock
  /\ rtcEvt = NoEvt
  /\ IF hasPeer(peerConnections_, p)
       THEN sdpType \in LocalSdpTypes(negOf(peerConnections_, p))
       ELSE sdpType \in {"offer", "answer"}
  /\ LET known == hasPeer(peerConnections_, p) IN
     /\ Relock("rtc", IF known THEN sendErrorCbs(conn) ELSE {}, outcome)
     /\ GhostNeg("localSdp:" \o sdpType, TRUE, {}, {}, {}, << >>,
                 IF known
                   THEN sendSignal(conn, Signal(sdpMessageType(sdpType),
                                                LocalId, p))
                   ELSE {})
  /\ UNCHANGED <<state_, startPc, stopPc, peerConnections_,
                 lastHeartbeatRxTime_, isRunning_, asioPc, conn, wsStopped,
                 rtcEvt>>

\* handlePeerLocalCandidateGenerated(peer, candidate, ...) under mutex_: a
\* PeerConnection gathers candidates once it has a local description.
LocalCandidateGenerated(p, outcome) ==
  /\ CanLock
  /\ rtcEvt = NoEvt
  /\ hasPeer(peerConnections_, p) => negOf(peerConnections_, p) # "none"
  /\ LET known == hasPeer(peerConnections_, p) IN
     /\ Relock("rtc", IF known THEN sendErrorCbs(conn) ELSE {}, outcome)
     /\ GhostNeg("localCandidate", TRUE, {}, {}, {}, << >>,
                 IF known
                   THEN sendSignal(conn, Signal("CANDIDATE", LocalId, p))
                   ELSE {})
  /\ UNCHANGED <<state_, startPc, stopPc, peerConnections_,
                 lastHeartbeatRxTime_, isRunning_, asioPc, conn, wsStopped,
                 rtcEvt>>

(***************************************************************************)
(* Heartbeat                                                               *)
(***************************************************************************)

\* One heartbeat interval passes.
AdvanceTime ==
  /\ ~aborted
  /\ \E q \in DOMAIN lastHeartbeatRxTime_ : lastHeartbeatRxTime_[q] < MaxAge
  /\ lastHeartbeatRxTime_' =
       [q \in DOMAIN lastHeartbeatRxTime_ |->
          IF lastHeartbeatRxTime_[q] < MaxAge
            THEN lastHeartbeatRxTime_[q] + 1
            ELSE MaxAge]
  /\ lastCbs' = {}
  /\ Ghost("time", TRUE, {}, {}, {})
  /\ UNCHANGED <<state_, mutexOwner, startPc, stopPc, peerConnections_,
                 isRunning_, asioPc, conn, wsStopped, rtcEvt, aborted>>

\* checkForHeartbeatLoss: the peers it collects in peers_to_disconnect.
checkForHeartbeatLoss(pcs, hb) ==
  IF HeartbeatIntervalMs <= 0 THEN {}
  ELSE {q \in DOMAIN hb :
          /\ hasPeer(pcs, q)
          /\ stateOf(pcs, q) = "Connected"
          /\ hb[q] * HeartbeatIntervalMs > HeartbeatIntervalMs * 3}

\* checkForHeartbeatLoss: the lost peers it calls attemptReconnection for
\* (the call is commented out, and attemptReconnection itself only logs:
\* reconnectionAttemptCount_ is never written).
reconnectionsScheduled(lost) == {}

\* The first of a set of peers in container order.
firstPeer(S) ==
  PeerOrder[CHOOSE i \in DOMAIN PeerOrder :
              /\ PeerOrder[i] \in S
              /\ \A j \in DOMAIN PeerOrder : PeerOrder[j] \in S => i <= j]

\* onHeartbeatTimer under mutex_: checkForHeartbeatLoss destroys the lost
\* peers one by one (each followed by invokePeerDisconnectedCallback), then
\* a ping is sent to every Connected peer.
OnHeartbeatTimer(outcome) ==
  /\ CanLock
  /\ state_ \notin {"Uninitialized", "Initialized"}
  /\ LET lost == checkForHeartbeatLoss(peerConnections_, lastHeartbeatRxTime_)
         gone == IF lost = {} \/ outcome = "proceed" THEN lost
                 ELSE {firstPeer(lost)}
         left == {e \in peerConnections_ : e.peer \notin gone} IN
     /\ peerConnections_' = left
     /\ lastHeartbeatRxTime_' =
          [q \in (DOMAIN lastHeartbeatRxTime_) \ gone |->
             lastHeartbeatRxTime_[q]]
     /\ Relock("timer",
               {Cb("PeerDisconnected", q, "Heartbeat lost") : q \in lost},
               outcome)
     /\ Ghost("tick", TRUE, {},
              {[peer |-> q, cause |-> "Heartbeat lost"] : q \in gone},
              IF outcome = "proceed"
                THEN {e.peer : e \in {x \in left :
                                         /\ x.st = "Connected"
                                         /\ SendData(left, x.peer,
                                                     "heartbeat")}}
                ELSE {})
  /\ UNCHANGED <<state_, startPc, stopPc, isRunning_, asioPc, conn, wsStopped,
                 rtcEvt>>

(***************************************************************************)
(* The vehicle application's hooks (VehicleClientApp)                      *)
(***************************************************************************)

\* handlePeerDisconnected(peer, reason): the emergency commands it hands to
\* the controller (it logs and returns).
handlePeerDisconnected(peer, reason) == {}

\* handleHeartbeatLost(peer): processEmergencyCommand(EMERGENCY_STOP); no
\* manager callback is registered with it.
handleHeartbeatLost(peer) == {"EMERGENCY_STOP"}

\* setupWebrtcManager: the handler each manager callback is registered with.
vehicleHook(cb) ==
  IF cb.kind = "PeerDisconnected"
    THEN handlePeerDisconnected(cb.peer, cb.reason)
    ELSE {}

\* The emergency commands the controller received from the last handler.
EmergencyCommands == UNION {vehicleHook(c) : c \in lastCbs}

\* Signaling events other than heartbeats, and the heartbeats alone.
NegotiationEvents == {x \in SigEvents : x.type # "HEARTBEAT"}

HeartbeatEvents == {x \in SigEvents : x.type \in {"", "HEARTBEAT"}}

LocalKinds == {"offer", "answer", "pranswer"}

\* The manager node with every operation and handler; its peers negotiate
\* and send no heartbeats (the heartbeat timer is never started).
MgrNext ==
  \/ ManagerInit
  \/ StartCAS
  \/ StartRejected
  \/ StartConnect
  \/ StopCAS
  \/ StopSkipped
  \/ StopClose
  \/ StopJoin
  \/ \E p \in Peers : ConnectToPeer(p)
  \/ \E p \in Peers : DisconnectFromPeer(p)
  \/ \E p \in Peers, l \in ChannelLabels : SendDataChannelMessage(p, l)
  \/ \E l \in ChannelLabels : SendDataChannelMessageToAllPeers(l)
  \/ AsioDispatch
  \/ \E e \in NegotiationEvents, o \in Outcomes : SigHandle(e, o)
  \/ AsioRunExit
  \/ \E o \in Outcomes : AsioPostDisconnected(o)
  \/ \E p \in Peers, s \in {"Connecting", "Connected", "Disconnected",
                            "Failed", "Closed"} : TransportChange(p, s)
  \/ \E o \in Outcomes : RtcHandle(o)
  \/ \E p \in Peers, l \in {"error", "control", "telemetry", "heartbeat"},
        o \in Outcomes : RtcNotify(p, l, o)
  \/ \E p \in Peers, t \in LocalKinds, o \in Outcomes :
        LocalSdpGenerated(p, t, o)
  \/ \E p \in Peers, o \in Outcomes : LocalCandidateGenerated(p, o)

\* The started node under heartbeat supervision: connections it opens
\* itself, heartbeats from its peers, transport, the clock and the heartbeat
\* timer.
HeartbeatNext ==
  \/ ManagerInit
  \/ StartCAS
  \/ StartConnect
  \/ \E p \in Peers : ConnectToPeer(p)
  \/ AsioDispatch
  \/ \E e \in HeartbeatEvents, o \in Outcomes : SigHandle(e, o)
  \/ \E p \in Peers, s \in {"Connecting", "Connected", "Disconnected",
                            "Failed", "Closed"} : TransportChange(p, s)
  \/ \E o \in Outcomes : RtcHandle(o)
  \/ AdvanceTime
  \/ \E o \in Outcomes : OnHeartbeatTimer(o)

\* The node and the data channels of its connections: start and stop, the
\* connections it opens, their transport and channels, and the sends.
ChannelNext ==
  \/ ManagerInit
  \/ StartCAS
  \/ StartConnect
  \/ StopCAS
  \/ StopClose
  \/ AsioRunExit
  \/ StopJoin
  \/ \E p \in Peers : ConnectToPeer(p)
  \/ \E p \in Peers, s \in {"Connecting", "Connected", "Disconnected",
                            "Failed", "Closed"} : TransportChange(p, s)
  \/ \E o \in Outcomes : RtcHandle(o)
  \/ \E p \in Peers, l \in ChannelLabels : DataChannelOpened(p, l)
  \/ \E p \in Peers, l \in ChannelLabels : DataChannelClosed(p, l)
  \/ \E p \in Peers, l \in ChannelLabels : SendDataChannelMessage(p, l)
  \/ \E l \in ChannelLabels : SendDataChannelMessageToAllPeers(l)

(***************************************************************************)
(* Specifications                                                          *)
(***************************************************************************)

RelaySpec == Init /\ [][RelayNext]_vars

MgrSpec == Init /\ [][MgrNext]_vars

HeartbeatSpec == Init /\ [][HeartbeatNext]_vars

ChannelSpec == Init /\ [][ChannelNext]_vars

(***************************************************************************)
(* Claims about the relay                                                  *)
(***************************************************************************)

\* The identity the relay authenticated a link as ("" when it did not).
authId(l) == IF presented[l] \in InvalidTokens THEN "" ELSE presented[l]

\* The envelope types the relay delivers on behalf of another peer.
OnBehalfTypes == {"offer", "answer", "candidate", "join_request", "leave"}

\* C3.  Every envelope the relay delivers on behalf of a peer (forwarded
\* Offer / Answer / Candidate, JoinRequest, Leave) carries in `from` the
\* authenticated identity of the link it originated on, and a frame whose
\* `from` differs from its link's identity causes no delivery at all.
C3_FromIsAuthenticated ==
  /\ \A s \in lastSent :
       s.type \in OnBehalfTypes =>
         /\ s.origin \in Links
         /\ authId(s.origin) # ""
         /\ s.from = authId(s.origin)
  /\ (lastOp.kind = "message" /\ lastOp.from # authId(lastOp.link))
       => lastSent = {}

\* C3 witness: a frame with the right `from` was forwarded to another link,
\* and one with a foreign `from` was received and dropped.
C3_WitnessForwarded ==
  \E s \in lastSent :
    /\ s.type = "offer"
    /\ s.origin \in Links
    /\ s.dst # s.origin
    /\ s.from = authId(s.origin)

C3_WitnessSpoofDropped ==
  /\ lastOp.kind = "message"
  /\ lastOp.from # authId(lastOp.link)
  /\ \E i \in Ids : sessions[i] # "none" /\ sessions[i] # lastOp.link
                      /\ readyState[sessions[i]] = "open"

\* C4.  A link whose token fails validation is sent one error envelope
\* "Authentication failed" and is closed; it is never in the directory, it
\* never has a message handler, and no delivery originates from it.
C4_AuthFailureRejected ==
  \A l \in Links :
    (presented[l] \in InvalidTokens /\ readyState[l] # "none") =>
      /\ readyState[l] \in {"pending", "closed"}
      /\ ~connectedClients[l].has
      /\ \A i \in Ids : sessions[i] # l
      /\ ~handlers[l]
      /\ \A s \in lastSent : s.origin # l
      /\ (lastOp.link = l /\ lastOp.kind \notin {"connect", "unheard"}) =>
           /\ lastOp.kind = "reject"
           /\ readyState[l] = "closed"
           /\ lastSent = {Sent(l, "error", "", "", "Authentication failed",
                               "server")}

\* C4 witness: a link with a failing token was rejected while another
\* client is registered.
C4_WitnessRejected ==
  /\ lastOp.kind = "reject"
  /\ presented[lastOp.link] \in InvalidTokens
  /\ readyState[lastOp.link] = "closed"
  /\ \E i \in Ids : sessions[i] # "none"

(***************************************************************************)
(* Claims about the manager node                                           *)
(***************************************************************************)

\* C1.  On the vehicle node, whenever a peer is declared lost by the
\* heartbeat check or its peer connection has gone to Failed, the handler
\* that ended it has issued an emergency stop to the controller.
C1_EmergencyOnLoss ==
  \A r \in lastRemoved :
    r.cause \in {"Heartbeat lost", "PC State: Failed"} =>
      "EMERGENCY_STOP" \in EmergencyCommands

\* C2.  With a positive heartbeat interval, after a heartbeat tick no peer
\* connection in Connected or Disconnected state is left whose last
\* heartbeat is more than three intervals old, and the application has been
\* notified of every peer the tick declared lost.
C2_OverdueDeclaredLost ==
  (mLastOp = "tick" /\ HeartbeatIntervalMs > 0) =>
    /\ \A e \in peerConnections_ :
         (e.st \in {"Connected", "Disconnected"}
            /\ e.peer \in DOMAIN lastHeartbeatRxTime_) =>
           lastHeartbeatRxTime_[e.peer] * HeartbeatIntervalMs
             <= 3 * HeartbeatIntervalMs
    /\ \A r \in lastRemoved :
         \E c \in lastCbs : c.kind = "PeerDisconnected" /\ c.peer = r.peer

C6_HookOncePerEnded ==
  \A r \in lastRemoved :
    Cardinality({c \in lastCbs : /\ c.kind = "PeerDisconnected"
                                 /\ c.peer = r.peer
                                 /\ c.reason # ""}) = 1

\* C7.  A stop() in progress can always go on: when it waits for mutex_ it
\* can take it, and when it joins the signaling thread either the join can
\* return or that thread can still run to its end.
C7_StopReturns ==
  ~aborted =>
    /\ (stopPc = "lock" => ENABLED StopClose)
    /\ (stopPc = "join" => (ENABLED StopJoin \/ ENABLED AsioRunExit))

\* C8.  Once stop() has returned (state_ = Stopped), start, connect_peer,
\* disconnect_peer, send and broadcast return failure, create no peer
\* connection and send nothing.
C8_OpsFailAfterStop ==
  (state_ = "Stopped"
     /\ mLastOp \in {"start", "connectToPeer", "disconnectFromPeer", "send",
                     "broadcast"}) =>
    /\ lastResult = FALSE
    /\ lastCreated = {}
    /\ lastSentData = {}

\* C9.  Once stop() has returned (state_ = Stopped), no handler invokes an
\* application callback.
C9_NoCallbackAfterStop == state_ = "Stopped" => lastCbs = {}

\* C10.  When stop() has closed and released the peer connections, the
\* peer-disconnected hook has fired for each of them with the reason
\* "local shutdown" (the hook cannot fire once the entry is gone).
C10_ShutdownHooks ==
  mLastOp = "stopClose" =>
    \A r \in lastRemoved :
      Cb("PeerDisconnected", r.peer, "local shutdown") \in lastCbs

(***************************************************************************)
(* Claims about negotiation                                                *)
(***************************************************************************)

\* The last operation was disconnectFromPeer(p) returning true on a
\* PeerConnection that Close() had been called on before.
ClosedTwice(p) ==
  /\ mLastOp = "disconnectFromPeer"
  /\ lastResult = TRUE
  /\ lastNegCalls = <<[peer |-> p, call |-> "Close", st |-> "Closed",
                       neg |-> negOf(peerConnections_, p), ok |-> TRUE]>>

\* The peer-disconnected notifications for p among a set of callbacks.
Terminal(cbs, p) == {c \in cbs : c.kind = "PeerDisconnected" /\ c.peer = p}

\* C11.  After disconnect_peer(p) was called a second time, the step that
\* ends the connection of p (its entry leaves the index, after which no
\* notification for it can follow) gives exactly one peer-disconnected
\* notification for p.
C11_OneTerminalNotification ==
  [][\A p \in Peers :
       (ClosedTwice(p) /\ ~hasPeer(peerConnections_', p)) =>
         Cardinality(Terminal(lastCbs', p)) = 1]_vars

\* The ids of the nodes in lexicographic order (c < p).
IdOrder == <<LocalId, "p1", "p2">>

IdLess(a, b) ==
  \E i, j \in DOMAIN IdOrder : IdOrder[i] = a /\ IdOrder[j] = b /\ i < j

\* C12.  Glare: when this node has its own Offer to p outstanding and its
\* id is the smaller one, an Offer that arrives from p is discarded: its
\* description is not applied and no Answer is generated for it.
C12_GlareOffererSurvives ==
  \A i \in DOMAIN lastNegCalls :
    (lastNegCalls[i].neg = "offer" /\ IdLess(LocalId, lastNegCalls[i].peer))
      => lastNegCalls[i].call \notin {"SetRemoteDescription:offer",
                                      "CreateAnswer"}

\* The PeerConnection had a remote description when the handler started.
hasRemote(c) == c.st # "absent" /\ c.neg \in {"answer", "done"}

\* C13.  A remote Candidate is handed to the PeerConnection only when that
\* connection has a remote description; one that arrives earlier is kept
\* back.
C13_CandidateAfterDescription ==
  \A i \in DOMAIN lastNegCalls :
    lastNegCalls[i].call = "AddRemoteCandidate" => hasRemote(lastNegCalls[i])

\* C14.  An Answer is applied only to a PeerConnection that existed and had
\* a local Offer outstanding, and a handler that applies an Answer creates
\* no PeerConnection.
C14_AnswerNeedsPendingOffer ==
  \A i \in DOMAIN lastNegCalls :
    lastNegCalls[i].call = "SetRemoteDescription:answer" =>
      /\ lastNegCalls[i].st # "absent"
      /\ lastNegCalls[i].neg = "offer"
      /\ lastCreated = {}

\* The requests of a handler that applies a remote Offer: the description
\* is applied first and the answer requested next, on the same
\* PeerConnection, which is in the index; no answer is requested otherwise.
OfferThenAnswer(calls, pcs) ==
  \A i \in DOMAIN calls :
    /\ calls[i].call = "SetRemoteDescription:offer" =>
         /\ i = 1
         /\ Len(calls) = 2
         /\ calls[2].call = "CreateAnswer"
         /\ calls[2].peer = calls[1].peer
         /\ hasPeer(pcs, calls[1].peer)
    /\ calls[i].call = "CreateAnswer" =>
         /\ i = 2
         /\ calls[1].call = "SetRemoteDescription:offer"

\* The handler of a local answer ran last.
AnswerOps == {"localSdp:answer", "localSdp:pranswer"}

NegotiationError(c) ==
  \/ ~c.ok
  \/ c.call = "SetRemoteDescription:answer" /\ c.neg # "offer"

\* C16.  When applying a remote description or candidate fails, or an
\* Answer arrives with no local Offer outstanding, the handler leaves the
\* PeerConnection of that peer in Failed state.
C16_ErrorForcesFailed ==
  \A i \in DOMAIN lastNegCalls :
    NegotiationError(lastNegCalls[i]) =>
      /\ hasPeer(peerConnections_, lastNegCalls[i].peer)
      /\ stateOf(peerConnections_, lastNegCalls[i].peer) = "Failed"

\* C17.  A connect_peer(p) that succeeds and creates the PeerConnection of
\* p has sent a Join envelope naming p to the relay.
C17_JoinOnConnect ==
  (mLastOp = "connectToPeer" /\ lastResult = TRUE /\ lastCreated # {}) =>
    \A q \in lastCreated :
      \E m \in lastSignals : m.type = "JOIN" /\ m.to = q

RelayErrorSurfaced ==
  /\ mLastOp = "message"
  /\ \E c \in lastCbs : c.kind = "SignalingError"

\* C19.  When the relay's error reply has been surfaced and the only
\* PeerConnection the node had was one it opened itself whose Offer nobody
\* answered (the connection to the target the relay does not know), that
\* connection is not in the index.
C19_UnknownTargetNoConnection ==
  RelayErrorSurfaced =>
    ~\E q \in Peers :
        peerConnections_ = {[peer |-> q, st |-> "New", neg |-> "offer",
                             dc |-> {}]}

(***************************************************************************)
(* Claims about the relay, continued                                       *)
(***************************************************************************)

\* C20.  No two links are registered under the same PeerId at once, and
\* the directory maps the PeerId of a registered link to that link
\* (reject-new: the first link keeps its entry).
C20_SecondLinkRejected ==
  \A l \in Links :
    connectedClients[l].has =>
      /\ sessions[connectedClients[l].id] = l
      /\ \A k \in Links \ {l} :
           connectedClients[k].has =>
             connectedClients[k].id # connectedClients[l].id

(***************************************************************************)
(* Claims about the relay's routing                                        *)
(***************************************************************************)

\* The link an id is registered under is in the directory.
present(id) == id \in Ids /\ sessions[id] # "none"

\* The link l belongs to an authenticated peer that signs its frames with
\* its own id f.
authenticatedAs(l, f) == connectedClients[l].has /\ connectedClients[l].id = f

\* C21 as stated: a Join from authenticated peer A naming a target that is
\* present in the directory sets A's partner to the target and delivers
\* exactly one JoinRequest(from=A, to=target) to the target's link.
C21_JoinDelivered ==
  [][\A l \in Links, f \in Ids, t \in Ids :
       (/\ authenticatedAs(l, f)
        /\ present(t)
        /\ OnMessage(l, "join", f, "", t))
       => /\ connectedClients'[l].targetId = t
          /\ lastSent' = {Sent(sessions[t], "join_request", f, t, "", l)}]_vars

\* C21 amended: the partner is always set; the JoinRequest, and nothing else,
\* is delivered when the target's link is open, and nothing is sent when the
\* target's link has begun closing.
C21_JoinDeliveredWhenOpen ==
  [][\A l \in Links, f \in Ids, t \in Ids :
       (/\ authenticatedAs(l, f)
        /\ present(t)
        /\ OnMessage(l, "join", f, "", t))
       => /\ connectedClients'[l].targetId = t
          /\ lastSent' =
               IF readyState[sessions[t]] = "open"
                 THEN {Sent(sessions[t], "join_request", f, t, "", l)}
                 ELSE {}]_vars

\* A Join was routed: its sender has the target as partner and the target's
\* link has been handed the JoinRequest.
C21_WitnessJoinRequest ==
  /\ lastOp.kind = "message"
  /\ \E t \in Ids :
       /\ present(t)
       /\ sessions[t] # lastOp.link
       /\ connectedClients[lastOp.link].targetId = t
       /\ lastSent = {Sent(sessions[t], "join_request", lastOp.from, t, "",
                           lastOp.link)}

\* The names a Join can carry as its target (a missing targetVehicleId names
\* nothing).
TargetNames == Names \ {""}

errorsTo(sent, l) ==
  {m \in sent : m.dst = l /\ m.type = "error" /\ m.to = connectedClients[l].id}

\* C23: an Offer, Answer or Candidate from A is forwarded unchanged to the
\* link registered under its `to`, and to no other link, when that link
\* exists; when `to` is empty or names no registered link, nothing is
\* forwarded and A receives an Error.  (The Error is recognised by its type
\* and addressee whatever its text, and the forward is only required of a
\* recipient link that is still open.)
C23_ForwardOrError ==
  [][\A l \in Links, f \in Ids, t \in Names,
        ty \in {"offer", "answer", "candidate"} :
       (/\ authenticatedAs(l, f)
        /\ OnMessage(l, ty, f, t, ""))
       => IF present(t)
            THEN readyState[sessions[t]] = "open"
                   => lastSent' = {Sent(sessions[t], ty, f, t, "", l)}
            ELSE /\ lastSent' = errorsTo(lastSent', l)
                 /\ Cardinality(lastSent') = 1]_vars

\* The kinds the relay routes.
KnownTypes == {"join", "leave", "offer", "answer", "candidate"}

\* The frames of a kind the relay does not know.
UnknownMsgs == {m \in Msgs : m.type \notin KnownTypes}

\* C24 as stated: an authenticated envelope whose kind is none of Join,
\* Leave, Offer, Answer, Candidate is answered with an
\* Error("Unknown message type") to its sender and is delivered to no other
\* peer.
C24_UnknownKindError ==
  [][\A l \in Links, m \in UnknownMsgs :
       (/\ authenticatedAs(l, m.from)
        /\ OnMessage(l, m.type, m.from, m.to, m.target))
       => lastSent' = {Sent(l, "error", "server", m.from,
                            "Unknown message type", "server")}]_vars

\* C24 amended: the Error's text quotes the kind received.
C24_UnknownKindQuoted ==
  [][\A l \in Links, m \in UnknownMsgs :
       (/\ authenticatedAs(l, m.from)
        /\ OnMessage(l, m.type, m.from, m.to, m.target))
       => /\ lastSent' =
               {Sent(l, "error", "server", m.from,
                     "Unknown message type '" \o m.type \o "'.", "server")}
          /\ connectedClients' = connectedClients
          /\ sessions' = sessions]_vars

\* An envelope of unknown kind addressed to a registered peer was answered
\* to its sender only.
C24_WitnessUnknownKind ==
  /\ lastOp.kind = "message"
  /\ present("A")
  /\ sessions["A"] # lastOp.link
  /\ readyState[sessions["A"]] = "open"
  /\ lastSent = {Sent(lastOp.link, "error", "server", lastOp.from,
                      "Unknown message type 'heartbeat'.", "server")}

\* The links, other than ws, of connected peers whose partner is the peer
\* registered on ws.
partnersOf(ws) ==
  {x \in Links \ {ws} :
     /\ connectedClients[x].has
     /\ readyState[x] = "open"
     /\ connectedClients[x].targetId = connectedClients[ws].id}

\* C25: when the link of peer A closes, every other connected peer P whose
\* partner is A is sent Leave(from=A, to=P, reason="Peer disconnected")
\* exactly once.
C25_LeaveOnClose ==
  [][\A l \in Links :
       (connectedClients[l].has /\ OnClose(l))
       => \A x \in partnersOf(l) :
            {m \in lastSent' : m.dst = x} =
              {Sent(x, "leave", connectedClients[l].id, connectedClients[x].id,
                    "Peer disconnected", l)}]_vars

\* C26: after the link of peer A has closed and its departure has been
\* processed, A is no longer in the relay directory and no remaining peer
\* has A as its partner.
C26_DepartureCleansUp ==
  [][\A l \in Links :
       (connectedClients[l].has /\ OnClose(l))
       => /\ sessions'[connectedClients[l].id] = "none"
          /\ \A x \in Links :
               connectedClients'[x].has
                 => connectedClients'[x].targetId # connectedClients[l].id]_vars

(***************************************************************************)
(* Claims about connection states, identity and data channels              *)
(***************************************************************************)

\* C28: a Connected PeerConnection that observes a Disconnected event moves
\* to Disconnected and stays in the index with no terminal notification (so
\* that it can become Connected again); it is removed only on heartbeat
\* timeout, explicit close, Failed or Closed.
C28_DisconnectedStaysIndexed ==
  [][\A o \in Outcomes :
       (/\ rtcEvt # NoEvt
        /\ rtcEvt.st = "Disconnected"
        /\ hasPeer(peerConnections_, rtcEvt.peer)
        /\ RtcHandle(o))
       => /\ hasPeer(peerConnections_', rtcEvt.peer)
          /\ stateOf(peerConnections_', rtcEvt.peer) = "Disconnected"
          /\ lastRemoved' = {}
          /\ \A c \in lastCbs' : c # Cb("PeerDisconnected", rtcEvt.peer,
                                       "PC State: Disconnected")]_vars

\* C29: every envelope emitted by the manager (Offer, Answer, Candidate,
\* Heartbeat) carries `from` equal to the node's own PeerId, the identity
\* under which it authenticated at the relay.
C29_FromIsOwnId ==
  \A m \in lastSignals : m.from = client_id

\* C27: whenever a PeerConnection is in Connected and the application has
\* been told the peer is connected, at least one of its data channels is
\* Open.
C27_ConnectedHasOpenChannel ==
  \A e \in peerConnections_ :
    (/\ e.st = "Connected"
     /\ Cb("PeerConnected", e.peer, "") \in lastCbs)
    => e.dc # {}

\* The peers of the index whose channel `label` is open.
openOn(pcs, label) == {e.peer : e \in {x \in pcs : label \in x.dc}}

\* C30: broadcast(label, bytes) on a running manager enqueues the message on
\* exactly the peers whose `label` channel is Open at the moment of the call
\* and never on a channel that is not Open.
C30_BroadcastToOpenChannels ==
  [][mLastOp' = "broadcast" =>
       \A l \in ChannelLabels :
         (/\ state_ = "Running"
          /\ SendDataChannelMessageToAllPeers(l))
         => /\ lastSentData' = openOn(peerConnections_, l)
            /\ lastResult' = (openOn(peerConnections_, l) # {})]_vars

(***************************************************************************)
(* Claims about reconnection, locking and late events                      *)
(***************************************************************************)

\* C31: after a heartbeat loss, reconnection to the peer is scheduled while
\* attempts remain (no attempt has been made yet for a peer that was
\* Connected, so attempts remain at every loss): the tick that declares the
\* loss either schedules a reconnection or starts a new connection for the
\* peer.
C31_ReconnectAfterLoss ==
  mLastOp = "tick" =>
    \A r \in lastRemoved :
      r.cause = "Heartbeat lost" =>
        \/ r.peer \in reconnectionsScheduled({x.peer : x \in lastRemoved})
        \/ r.peer \in lastCreated
        \/ \E i \in DOMAIN lastNegCalls : lastNegCalls[i].peer = r.peer

\* C32: no application callback is ever invoked while the invoking thread
\* holds the manager mutex: a step that invoked callbacks is not one of a
\* handler that holds mutex_ throughout.
C32_CallbacksOutsideLock ==
  lastCbs # {} => mLastOp \notin LockedHandlers

\* C33: every internal event handler that takes the manager mutex runs to
\* completion and releases it: the process is not terminated inside a
\* handler and no handler thread is left blocked on the mutex it holds.
C33_HandlersRelease ==
  /\ ~aborted
  /\ mutexOwner \notin HandlerThreads

\* C34: if start() and stop() run concurrently, then once stop() has
\* returned the manager is in Stopped and the signaling link is not
\* connected, and the racing start() does not connect it afterwards.
C34_StopWinsRace ==
  (state_ = "Stopped" /\ stopPc = "idle") =>
    /\ conn \notin {"connecting", "open"}
    /\ ~isRunning_

\* C35: a transport event emitted by a transport that has already been
\* removed from the index never changes or destroys a newer PeerConnection
\* later created under the same PeerId: handling such an event leaves the
\* index as it is, removes nothing and notifies nobody.
C35_LateEventIgnored ==
  [][\A o \in Outcomes :
       (/\ rtcEvt.late
        /\ RtcHandle(o))
       => /\ peerConnections_' = peerConnections_
          /\ lastRemoved' = {}
          /\ lastCbs' = {}]_vars

\* C36: an inbound Offer, Answer or Candidate that lacks one of its
\* kind-specific fields is rejected without creating a PeerConnection and
\* without changing any existing one.
C36_MalformedCreatesNothing ==
  [][mLastOp' = "message" =>
       \A e \in NegotiationEvents, o \in Outcomes :
         (/\ e.kind = "message"
          /\ e.type \in Negotiation
          /\ ~e.complete
          /\ SigHandle(e, o))
         => /\ peerConnections_' = peerConnections_
            /\ lastCreated' = {}
            /\ lastNegCalls' = << >>]_vars

(***************************************************************************)
(* Claims about joined pairs, the directory and the signaling connection   *)
(***************************************************************************)

\* The links of the other member of a joined pair one of whose members is on
\* link l: the open links of peers that named l's peer in their Join, and
\* the open link of the peer that l's peer named.
pairedWith(l) ==
  {x \in Links \ {l} :
     /\ connectedClients[x].has
     /\ readyState[x] = "open"
     /\ connectedClients[x].id # connectedClients[l].id
     /\ \/ connectedClients[x].targetId = connectedClients[l].id
        \/ /\ connectedClients[l].targetId = connectedClients[x].id
           /\ sessions[connectedClients[x].id] = x}

\* C37: when either member of a joined pair (the peer that sent Join, or the
\* peer it named) loses its relay link, the other member is sent a Leave.
C37_LeaveToOtherMember ==
  [][\A l \in Links :
       (/\ connectedClients[l].has
        /\ inSessions(l)
        /\ OnClose(l))
       => \A x \in pairedWith(l) :
            \E m \in lastSent' : m.dst = x /\ m.type = "leave"]_vars

\* C38: at all times every authenticated link that is still open is
\* registered in the relay directory under its own PeerId, and every
\* directory entry maps a PeerId to a currently connected link that
\* authenticated as that PeerId.
C38_DirectoryMatchesLinks ==
  /\ \A l \in Links :
       (connectedClients[l].has /\ readyState[l] = "open")
         => sessions[connectedClients[l].id] = l
  /\ \A i \in Ids :
       sessions[i] # "none"
         => /\ connectedClients[sessions[i]].has
            /\ connectedClients[sessions[i]].id = i
            /\ verifyToken(presented[sessions[i]]) = i
            /\ readyState[sessions[i]] \in {"open", "closing"}

\* C39: each loss of the signaling connection (server close, failed
\* handshake, or I/O loop exit) is reported to the manager through the
\* disconnected handler exactly once: a started I/O thread serves one
\* connection, so it never reports a second time, and once it has finished
\* after losing the connection by itself it has reported.
C39_DisconnectedOnce ==
  /\ disconnectedCalls <= 1
  /\ (asioPc = "exited" /\ ~wsStopped /\ ~aborted) => disconnectedCalls = 1

\* C40: after the signaling connection has ended on its own (server close or
\* failed handshake), disconnect() still joins the I/O thread: when stop()
\* has returned straight from disconnect() without joining, no I/O thread
\* was ever started; and connect() never starts a new I/O thread while a
\* previously started one has not been joined.
C40_IoThreadJoined ==
  /\ []((mLastOp = "stopClose" /\ state_ = "Stopped") => asioPc = "none")
  /\ [][(StartConnect /\ ~isRunning_) => asioPc = "none"]_vars

====
